---- MODULE Spec2Model ----
(***************************************************************************)
(* Order state machine and webhook reconciliation of mini-dsers-backend.   *)
(*                                                                         *)
(* The model follows src/src/index.ts (the three route handlers that write *)
(* the Order Store) and lib/manufacturer (src/unnamed/part_002).  Every    *)
(* `await` of a handler is a point where another request may run, so each  *)
(* handler is a sequence of actions, one per store access or external      *)
(* call; the synchronous code before and after an await belongs to the     *)
(* same action.                                                            *)
(*                                                                         *)
(* The route handlers are modelled on the request body their own route     *)
(* level parser, bodyParser.raw (index.ts:124, index.ts:217), hands them:  *)
(* a Buffer, the type verifyManufacturerSignature declares for rawBody.    *)
(* What the middleware mounted in front of the routes (index.ts:19-31,     *)
(* part_001:17-21) makes of that body is modelled on its own, under        *)
(* SpecHttp.                                                               *)
(***************************************************************************)
EXTENDS Integers, Sequences, FiniteSets, TLC

\* ---------------------------------------------------------------- bounds
MaxOrders   == 2      \* order rows the store may hold
MaxRequests == 4      \* requests received over a behaviour
MaxCheckouts == 2     \* requests received over a behaviour of checkout alone
MaxInFlight == 2      \* requests being handled at the same time
MaxCartLen  == 2      \* items of a checkout request
MaxQuantity == 2      \* quantity of one cart item

DigestHexLen == 64    \* characters of a hex SHA-256 digest

\* ------------------------------------------------------------ data model
Null == "null"                      \* null / undefined / absent field

OrderId(k) == "O" \o ToString(k)
OrderIds == {OrderId(k) : k \in 1..MaxOrders}   \* ids the store hands out, in order
Slots    == 1..MaxInFlight

\* Product table: read-only for the handlers.  P1 and P2 exist, PX does not.
Catalog    == [P1 |-> 1000, P2 |-> 250]
ProductIds == {"P1", "P2", "PX"}
Known(pid) == pid \in DOMAIN Catalog

CartItems == [productId : ProductIds, quantity : 1..MaxQuantity]
RECURSIVE SeqsUpTo(_, _)
SeqsUpTo(S, n) ==
  IF n = 0 THEN {<<>>}
  ELSE LET shorter == SeqsUpTo(S, n - 1)
       IN  shorter \cup {Append(s, x) : s \in {t \in shorter : Len(t) = n - 1}, x \in S}
Carts == SeqsUpTo(CartItems, MaxCartLen)
\* req.body of POST /checkout: with an items array, or without the field
CheckoutBodies == [hasItems : {TRUE}, items : Carts] \cup {[hasItems |-> FALSE, items |-> <<>>]}
\* checkout requests of the specifications that also run the webhooks: an
\* empty cart, or one P1 (SpecCheckout runs every cart)
SmallBodies == {b \in CheckoutBodies :
                  /\ b.hasItems /\ Len(b.items) <= 1
                  /\ \A k \in 1..Len(b.items) :
                       b.items[k].quantity = 1 /\ b.items[k].productId = "P1"}

Absent == "undefined"               \* a field the JSON body does not carry

PaymentIntents == {"pi_1"}
FulfillmentIds == {"F1", "F2"}
TrackingNumbers == {"T1"}
Completed == "checkout.session.completed"
StripeTypes == {Completed, "payment_intent.succeeded"}
\* event.data.object of a payment webhook: type, metadata.orderId, payment_intent
StripeEvents == [type : StripeTypes, orderId : OrderIds \cup {Null}, payment_intent : PaymentIntents]

ManufacturerTypes == {"FULFILLMENT_ACCEPTED", "SHIPPED", "CANCELLED"}
\* JSON bodies of the manufacturer webhook
ManufacturerBodies ==
  {b \in [type : ManufacturerTypes,
          fulfillmentId : FulfillmentIds \cup {Null, Absent},
          trackingNumber : TrackingNumbers \cup {Absent}] :
     b.type # "SHIPPED" => b.trackingNumber = Absent}

VARIABLES
  env,            \* process.env: which secrets are set
  orders,         \* Order table: id -> row, for the ids that have a row
  paymentEvents,  \* PaymentEvent table: bag of rows [type, orderId]
  reqs,           \* requests in flight: slot -> handler position and locals
  last,           \* the request that completed most recently, with its response
  pushes,         \* calls of sendOrderToManufacturer made so far, per order
  sessionCalls,   \* calls of stripe.checkout.sessions.create made so far
  received        \* requests received so far

vars == <<env, orders, paymentEvents, reqs, last, pushes, sessionCalls, received>>

Idle == [pc |-> "idle"]
None == [kind |-> "none"]

Exists(o) == o \in DOMAIN orders

\* Order row as prisma.order.create leaves it: the columns the handler does
\* not set take the schema's defaults (an order is created PENDING, the
\* external ids are null).
NewOrder(amountCents, lineItems) ==
  [status |-> "PENDING", amountCents |-> amountCents, lineItems |-> lineItems,
   stripeSessionId |-> Null, stripePaymentIntentId |-> Null,
   fulfillmentId |-> Null, trackingNumber |-> Null]

\* ------------------------------------------------------------- checkout
\* index.ts:61-78: amountCents accumulated over the items whose product is found
RECURSIVE AmountCents(_)
AmountCents(items) ==
  IF items = <<>> THEN 0
  ELSE LET i == Head(items)
       IN  (IF Known(i.productId) THEN Catalog[i.productId] * i.quantity ELSE 0)
           + AmountCents(Tail(items))

\* index.ts:87-92: line items persisted with the order, one per input item
PersistedLineItems(items) ==
  [k \in 1..Len(items) |->
     [productId |-> items[k].productId, quantity |-> items[k].quantity,
      unitPriceCents |-> IF Known(items[k].productId)
                         THEN Catalog[items[k].productId] ELSE 0]]

\* LineItem.productId references Product: a store that enforces the
\* reference refuses a line item of a product it does not hold
ProductMissing(items) == \E k \in 1..Len(items) : ~Known(items[k].productId)
\* PaymentEvent.orderId references Order, and may be null
OrderMissing(orderId) == orderId # Null /\ ~Exists(orderId)

FreeSlot(s) == reqs[s].pc = "idle" /\ \A t \in Slots : t < s => reqs[t].pc # "idle"
\* seq: the request is received only when no other one is being handled
CanReceive(s, seq, budget) ==
  /\ received < budget
  /\ FreeSlot(s)
  /\ seq => \A t \in Slots : reqs[t].pc = "idle"

Finish(s, rec) ==
  /\ reqs' = [reqs EXCEPT ![s] = Idle]
  /\ last' = rec

\* index.ts:49-95: validation, product lookup, totals and prisma.order.create
CheckoutCreate(s, body, seq, budget) ==
  /\ CanReceive(s, seq, budget)
  /\ received' = received + 1
  /\ LET items == body.items IN
     IF ~body.hasItems \/ Len(items) = 0
     THEN \* index.ts:53-55
          /\ Finish(s, [kind |-> "checkout", response |-> "400", items |-> items,
                        orderId |-> Null, session |-> FALSE])
          /\ UNCHANGED orders
     ELSE \/ \* the row and its line items are written
             /\ Cardinality(DOMAIN orders) < MaxOrders
             /\ LET o == OrderId(Cardinality(DOMAIN orders) + 1) IN
                  /\ orders' = orders @@
                                  (o :> NewOrder(AmountCents(items), PersistedLineItems(items)))
                  /\ reqs' = [reqs EXCEPT ![s] =
                                [pc |-> "c_session", kind |-> "checkout", items |-> items,
                                 orderId |-> o]]
             /\ UNCHANGED last
          \/ \* the store refuses a line item: create throws, index.ts:115-118
             /\ ProductMissing(items)
             /\ Finish(s, [kind |-> "checkout", response |-> "500", items |-> items,
                           orderId |-> Null, session |-> FALSE])
             /\ UNCHANGED orders
  /\ UNCHANGED <<env, paymentEvents, pushes, sessionCalls>>

\* CheckoutSession with the order written before the gateway has answered:
\* a failed call leaves an id on the order
CheckoutSessionEagerId(s) ==
  /\ reqs[s].pc = "c_session"
  /\ sessionCalls' = sessionCalls + 1
  /\ \/ /\ reqs' = [reqs EXCEPT ![s] =
                      [reqs[s] EXCEPT !.pc = "c_update"] @@
                        [sessionId |-> "cs_" \o ToString(sessionCalls + 1)]]
        /\ UNCHANGED <<last, orders>>
     \/ /\ orders' = [orders EXCEPT ![reqs[s].orderId].stripeSessionId =
                                      "cs_" \o ToString(sessionCalls + 1)]
        /\ Finish(s, [kind |-> "checkout", response |-> "500", items |-> reqs[s].items,
                      orderId |-> reqs[s].orderId, session |-> TRUE])
  /\ UNCHANGED <<env, paymentEvents, pushes, received>>

\* index.ts:98-106 and 115-118: stripe.checkout.sessions.create, which
\* returns a session or throws
CheckoutSession(s) ==
  /\ reqs[s].pc = "c_session"
  /\ sessionCalls' = sessionCalls + 1
  /\ \/ /\ reqs' = [reqs EXCEPT ![s] =
                      [reqs[s] EXCEPT !.pc = "c_update"] @@
                        [sessionId |-> "cs_" \o ToString(sessionCalls + 1)]]
        /\ UNCHANGED last
     \/ Finish(s, [kind |-> "checkout", response |-> "500", items |-> reqs[s].items,
                   orderId |-> reqs[s].orderId, session |-> TRUE])
  /\ UNCHANGED <<env, orders, paymentEvents, pushes, received>>

\* index.ts:109-114: the session id is stored on the order, 200 {id, url}
CheckoutUpdate(s) ==
  /\ reqs[s].pc = "c_update"
  /\ orders' = [orders EXCEPT ![reqs[s].orderId].stripeSessionId = reqs[s].sessionId]
  /\ Finish(s, [kind |-> "checkout", response |-> "200", items |-> reqs[s].items,
                orderId |-> reqs[s].orderId, session |-> TRUE])
  /\ UNCHANGED <<env, paymentEvents, pushes, sessionCalls, received>>

\* ------------------------------------------------------ payment webhook
\* the columns of an order the webhooks write, as a sequence: empty when
\* the order has no row
CoreOf(table, o) ==
  IF o \in DOMAIN table
  THEN <<[status |-> table[o].status,
          stripePaymentIntentId |-> table[o].stripePaymentIntentId,
          fulfillmentId |-> table[o].fulfillmentId,
          trackingNumber |-> table[o].trackingNumber]>>
  ELSE <<>>
Core(o) == CoreOf(orders, o)

\* the event of a request whose body was never parsed
Unparsed == [type |-> Absent]

\* locals of a payment-webhook request.  before is the order as the request
\* found it; redelivery tells that the request before this one delivered the
\* same event, that it found the order PENDING, and that it has answered.
StripeReq(pc, ev, verified) ==
  LET again == /\ verified
               /\ ev.type = Completed /\ ev.orderId # Null
               /\ last.kind = "stripe" /\ last.verified /\ last.ev = ev
               /\ last.firstPaid
               /\ \A t \in Slots : reqs[t].pc = "idle"
  IN [pc |-> pc, kind |-> "stripe", ev |-> ev, verified |-> verified,
      redelivery |-> again,
      before |-> IF verified /\ ev.orderId # Null THEN Core(ev.orderId) ELSE <<>>,
      prevCalls |-> IF again THEN last.calls ELSE 0,
      firstPaid |-> FALSE, calls |-> 0, audits |-> 0, pushFailed |-> FALSE, fid |-> Null]

\* what is remembered of a payment-webhook request that has answered
StripeDone(r, response) ==
  [kind |-> "stripe", response |-> response, ev |-> r.ev, verified |-> r.verified,
   firstPaid |-> r.firstPaid, calls |-> r.calls, audits |-> r.audits,
   pushFailed |-> r.pushFailed]

Respond(s, r, response) == Finish(s, StripeDone(r, response))

\* StripeReceive without the catch of index.ts:134-137: an event whose
\* signature the provider rejects is processed like any other
StripeReceiveUnchecked(s, ev, sigOK, seq) ==
  /\ CanReceive(s, seq, MaxRequests)
  /\ received' = received + 1
  /\ IF ~env.STRIPE_WEBHOOK_SECRET
     THEN Respond(s, StripeReq("done", Unparsed, FALSE), "500")
     ELSE /\ reqs' = [reqs EXCEPT ![s] =
                        StripeReq(IF ev.type = Completed /\ ev.orderId # Null
                                  THEN "s_paid" ELSE "s_audit", ev, sigOK)]
          /\ UNCHANGED last
  /\ UNCHANGED <<env, orders, paymentEvents, pushes, sessionCalls>>

\* index.ts:126-145: secret, stripe.webhooks.constructEvent, dispatch on the
\* event type and metadata.orderId
StripeReceive(s, ev, sigOK, seq) ==
  /\ CanReceive(s, seq, MaxRequests)
  /\ received' = received + 1
  /\ IF ~env.STRIPE_WEBHOOK_SECRET
     THEN Respond(s, StripeReq("done", Unparsed, FALSE), "500")
     ELSE IF ~sigOK
     THEN Respond(s, StripeReq("done", Unparsed, FALSE), "400")
     ELSE /\ reqs' = [reqs EXCEPT ![s] =
                        StripeReq(IF ev.type = Completed /\ ev.orderId # Null
                                  THEN "s_paid" ELSE "s_audit", ev, TRUE)]
          /\ UNCHANGED last
  /\ UNCHANGED <<env, orders, paymentEvents, pushes, sessionCalls>>

\* SetPaid without the payment intent
SetPaidNoIntent(row, ev) == [row EXCEPT !.status = "PAID"]

\* data of index.ts:148-151
SetPaid(row, ev) ==
  [row EXCEPT !.status = "PAID", !.stripePaymentIntentId = ev.payment_intent]

\* index.ts:146-152: prisma.order.update to PAID; update throws when no row
\* has the id, and the catch of index.ts:206-210 answers
StripeMarkPaid(s) ==
  /\ reqs[s].pc = "s_paid"
  /\ LET r == reqs[s]
         o == r.ev.orderId
     IN IF Exists(o)
        THEN /\ orders' = [orders EXCEPT ![o] = SetPaid(orders[o], r.ev)]
             /\ reqs' = [reqs EXCEPT ![s] =
                           [r EXCEPT !.pc = "s_find",
                                     !.firstPaid = (orders[o].status = "PENDING")]]
             /\ UNCHANGED last
        ELSE /\ Respond(s, r, "200")
             /\ UNCHANGED orders
  /\ UNCHANGED <<env, paymentEvents, pushes, sessionCalls, received>>

\* index.ts:154-159: prisma.order.findUnique and `if (order)`
StripeFind(s) ==
  /\ reqs[s].pc = "s_find"
  /\ reqs' = [reqs EXCEPT ![s].pc = IF Exists(reqs[s].ev.orderId) THEN "s_send" ELSE "s_audit"]
  /\ UNCHANGED <<env, orders, paymentEvents, last, pushes, sessionCalls, received>>

\* index.ts:160-186 with part_002:8-32: the payload is posted to the
\* manufacturer; axios resolves with a fulfillment id, or rejects (error
\* status, network error, 15 s timeout) and the catch answers
sendOrderToManufacturer(s) ==
  /\ reqs[s].pc = "s_send"
  /\ LET r == [reqs[s] EXCEPT !.calls = @ + 1]
         o == r.ev.orderId
     IN /\ pushes' = [pushes EXCEPT ![o] = @ + 1]
        /\ \/ \E f \in FulfillmentIds :
                /\ reqs' = [reqs EXCEPT ![s] = [r EXCEPT !.pc = "s_sent", !.fid = f]]
                /\ UNCHANGED last
           \/ Respond(s, [r EXCEPT !.pushFailed = TRUE], "200")
  /\ UNCHANGED <<env, orders, paymentEvents, sessionCalls, received>>

\* SetSent without the fulfillment id
SetSentNoId(row, fid) == [row EXCEPT !.status = "SENT_TO_SUPPLIER"]

\* data of index.ts:190-193
SetSent(row, fid) ==
  [row EXCEPT !.status = "SENT_TO_SUPPLIER", !.fulfillmentId = fid]

\* index.ts:188-194: prisma.order.update to SENT_TO_SUPPLIER
StripeMarkSent(s) ==
  /\ reqs[s].pc = "s_sent"
  /\ LET r == reqs[s]
         o == r.ev.orderId
     IN /\ orders' = [orders EXCEPT ![o] = SetSent(orders[o], r.fid)]
        /\ reqs' = [reqs EXCEPT ![s].pc = "s_audit"]
  /\ UNCHANGED <<env, paymentEvents, last, pushes, sessionCalls, received>>

\* index.ts:199-210: prisma.paymentEvent.create, then 200 {received: true}.
\* When the store refuses the row, create throws and the catch answers.
StripeAudit(s) ==
  /\ reqs[s].pc = "s_audit"
  /\ LET r == reqs[s]
         row == <<r.ev.type, r.ev.orderId>>
     IN \/ /\ paymentEvents' = [paymentEvents EXCEPT ![row] = @ + 1]
           /\ Respond(s, [r EXCEPT !.audits = @ + 1], "200")
        \/ /\ OrderMissing(r.ev.orderId)
           /\ Respond(s, r, "200")
           /\ UNCHANGED paymentEvents
  /\ UNCHANGED <<env, orders, pushes, sessionCalls, received>>

\* ------------------------------------------------- manufacturer webhook
\* part_002:37-39: hex digest of the HMAC-SHA256 of the body under the secret
Hmac(rawBody) == [present |-> TRUE, len |-> DigestHexLen, text |-> <<"hmac", rawBody>>]
\* X-Signature headers a body may come with: absent, empty, too short, 64
\* characters that are no digest, the digest of other bytes, the digest of the body
NoSignature == [present |-> FALSE, len |-> 0, text |-> <<>>]
\* the body with another type: the bytes a tampered delivery was signed over
Tampered(body) ==
  [body EXCEPT !.type = IF @ = "SHIPPED" THEN "FULFILLMENT_ACCEPTED" ELSE "SHIPPED"]
Signatures(body) ==
  {NoSignature,
   [present |-> TRUE, len |-> 0, text |-> <<>>],
   [present |-> TRUE, len |-> DigestHexLen - 1, text |-> <<"short">>],
   [present |-> TRUE, len |-> DigestHexLen, text |-> <<"other">>],
   Hmac(Tampered(body)),
   Hmac(body)}

\* part_002:34-41: "true", "false", or "throw" when crypto.timingSafeEqual
\* is given buffers of different byte length (RangeError)
verifyManufacturerSignature(rawBody, signature) ==
  IF ~env.MANUFACTURER_WEBHOOK_SECRET THEN "false"
  ELSE IF ~signature.present \/ signature.len = 0 THEN "false"
  ELSE IF signature.len # DigestHexLen THEN "throw"
  ELSE IF signature.text = Hmac(rawBody).text THEN "true" ELSE "false"

\* index.ts:186-194: sendOrderToManufacturer has returned fulfillment id f
\* for order o; the id is on the order, or the payment handler holds it and
\* has not stored it yet
PushReturned(o, f) ==
  \/ orders[o].fulfillmentId = f
  \/ \E t \in Slots :
       reqs[t].pc = "s_sent" /\ reqs[t].ev.orderId = o /\ reqs[t].fid = f

\* a manufacturer-webhook request being handled
ManufacturerReq(pc, body, verdict) ==
  [pc |-> pc, kind |-> "manufacturer", ev |-> body, verdict |-> verdict,
   \* history: the orders whose push had returned the event's id on arrival
   pushed |-> IF verdict = "true" /\ body.fulfillmentId \in FulfillmentIds
              THEN {o \in DOMAIN orders : PushReturned(o, body.fulfillmentId)}
              ELSE {}]

\* what is remembered of a manufacturer-webhook request that has ended
ManufacturerDone(r, response) ==
  [kind |-> "manufacturer", response |-> response, ev |-> r.ev, verdict |-> r.verdict]

\* ManufacturerReceive without the dispatch on the type: every verified event
\* goes on to the update
ManufacturerReceiveAnyType(s, body, signature, seq) ==
  /\ CanReceive(s, seq, MaxRequests)
  /\ received' = received + 1
  /\ LET verdict == verifyManufacturerSignature(body, signature)
         r == ManufacturerReq("done", IF verdict = "true" THEN body ELSE Unparsed, verdict)
     IN CASE verdict = "false" ->
               Finish(s, ManufacturerDone(r, "400"))
          [] verdict = "throw" ->
               \E resp \in {"none", "500"} : Finish(s, ManufacturerDone(r, resp))
          [] verdict = "true" ->
               /\ reqs' = [reqs EXCEPT ![s] = ManufacturerReq("m_update", body, verdict)]
               /\ UNCHANGED last
  /\ UNCHANGED <<env, orders, paymentEvents, pushes, sessionCalls>>

\* index.ts:218-226 and 240: signature check, JSON.parse, dispatch on the type.
\* An exception leaves the async handler as a rejected promise: the request
\* gets no response from the handler, or the framework's 500.
ManufacturerReceive(s, body, signature, seq) ==
  /\ CanReceive(s, seq, MaxRequests)
  /\ received' = received + 1
  /\ LET verdict == verifyManufacturerSignature(body, signature)
         r == ManufacturerReq("done", IF verdict = "true" THEN body ELSE Unparsed, verdict)
     IN CASE verdict = "false" ->
               Finish(s, ManufacturerDone(r, "400"))
          [] verdict = "throw" ->
               \E resp \in {"none", "500"} : Finish(s, ManufacturerDone(r, resp))
          [] verdict = "true" ->
               IF body.type \in {"FULFILLMENT_ACCEPTED", "SHIPPED"}
               THEN /\ reqs' = [reqs EXCEPT ![s] = ManufacturerReq("m_update", body, verdict)]
                    /\ UNCHANGED last
               ELSE Finish(s, ManufacturerDone(r, "200"))
  /\ UNCHANGED <<env, orders, paymentEvents, pushes, sessionCalls>>

\* where: { fulfillmentId: event.fulfillmentId }: an undefined value is no
\* filter at all, null selects the rows whose column is null
Matches(row, fulfillmentId) ==
  fulfillmentId = Absent \/ row.fulfillmentId = fulfillmentId

\* SetManufacturerStatus without the tracking number of index.ts:236
SetManufacturerStatusNoTracking(row, ev) ==
  IF ev.type = "SHIPPED"
  THEN [row EXCEPT !.status = "SHIPPED"]
  ELSE [row EXCEPT !.status = "FULFILLMENT_ACCEPTED"]

\* data of index.ts:231 and index.ts:236; an undefined trackingNumber is not written
SetManufacturerStatus(row, ev) ==
  IF ev.type = "SHIPPED"
  THEN [row EXCEPT !.status = "SHIPPED",
                   !.trackingNumber = IF ev.trackingNumber = Absent THEN @ ELSE ev.trackingNumber]
  ELSE [row EXCEPT !.status = "FULFILLMENT_ACCEPTED"]

\* index.ts:228-240: prisma.order.updateMany, then 200 {ok: true}
ManufacturerUpdate(s) ==
  /\ reqs[s].pc = "m_update"
  /\ LET r == reqs[s] IN
       /\ orders' = [o \in DOMAIN orders |->
                       IF Matches(orders[o], r.ev.fulfillmentId)
                       THEN SetManufacturerStatus(orders[o], r.ev) ELSE orders[o]]
       /\ Finish(s, ManufacturerDone(r, "200"))
  /\ UNCHANGED <<env, paymentEvents, pushes, sessionCalls, received>>

Init ==
  /\ env \in [STRIPE_WEBHOOK_SECRET : BOOLEAN, MANUFACTURER_WEBHOOK_SECRET : BOOLEAN]
  /\ orders = <<>>
  /\ paymentEvents = [t \in StripeTypes \X (OrderIds \cup {Null}) |-> 0]
  /\ reqs = [s \in Slots |-> Idle]
  /\ last = None
  /\ pushes = [o \in OrderIds |-> 0]
  /\ sessionCalls = 0
  /\ received = 0

\* the steps of the handlers after their first await
Steps ==
  \/ \E s \in Slots : CheckoutSession(s)
  \/ \E s \in Slots : CheckoutUpdate(s)
  \/ \E s \in Slots : StripeMarkPaid(s)
  \/ \E s \in Slots : StripeFind(s)
  \/ \E s \in Slots : sendOrderToManufacturer(s)
  \/ \E s \in Slots : StripeMarkSent(s)
  \/ \E s \in Slots : StripeAudit(s)
  \/ \E s \in Slots : ManufacturerUpdate(s)

Receive(seq) ==
  \/ \E s \in Slots, body \in SmallBodies : CheckoutCreate(s, body, seq, MaxRequests)
  \/ \E s \in Slots, ev \in StripeEvents, sigOK \in BOOLEAN : StripeReceive(s, ev, sigOK, seq)
  \/ \E s \in Slots, body \in ManufacturerBodies :
        \E signature \in Signatures(body) : ManufacturerReceive(s, body, signature, seq)

\* requests arrive at any time and their handlers interleave at every await
Next == Receive(FALSE) \/ Steps
Spec == Init /\ [][Next]_vars

\* one request after the other: a request arrives when none is being handled
NextSeq == Receive(TRUE) \/ Steps
SpecSeq == Init /\ [][NextSeq]_vars

\* checkout alone, one request after the other, over every cart up to
\* MaxCartLen items
NextCheckout ==
  \/ \E s \in Slots, body \in CheckoutBodies : CheckoutCreate(s, body, TRUE, MaxCheckouts)
  \/ \E s \in Slots : CheckoutSession(s)
  \/ \E s \in Slots : CheckoutUpdate(s)

SpecCheckout == Init /\ [][NextCheckout]_vars

\* ------------------------------------------- middleware before the routes
\* The two server files that mount both webhook routes
ServerFiles == {"index.ts", "part_001"}

StripePath       == "/webhooks/stripe"
ManufacturerPath == "/webhooks/manufacturer"
\* req.originalUrl of a webhook delivery; the router is not strict, so a
\* trailing slash reaches the same route
OriginalUrls == {StripePath, StripePath \o "/", ManufacturerPath}
RouteOf(originalUrl) == IF originalUrl = ManufacturerPath THEN "manufacturer" ELSE "stripe"

ContentTypes == {"application/json", "text/plain"}

\* a request as the first middleware sees it: the body is an unread stream
Incoming(originalUrl, contentType) ==
  [originalUrl |-> originalUrl, contentType |-> contentType,
   body |-> "stream", parsed |-> FALSE]

\* express.json(): a body already parsed is left alone; a body of the JSON
\* content type is read and replaced by the parsed object; any other body is
\* not read and req.body is the empty default
json(req) ==
  IF req.parsed THEN req
  ELSE IF req.contentType = "application/json"
  THEN [req EXCEPT !.body = "object", !.parsed = TRUE]
  ELSE [req EXCEPT !.body = "empty"]

\* bodyParser.raw({ type: "application/json" }): the same, with a Buffer of
\* the bytes in place of the object
raw(req) ==
  IF req.parsed THEN req
  ELSE IF req.contentType = "application/json"
  THEN [req EXCEPT !.body = "buffer", !.parsed = TRUE]
  ELSE [req EXCEPT !.body = "empty"]

\* index.ts:25-31: JSON parser except when originalUrl is exactly the payment
\* webhook path; part_001:21: JSON parser on every request
GlobalMiddleware(server, req) ==
  IF server = "index.ts" /\ req.originalUrl = StripePath THEN req ELSE json(req)

\* req.body as the route handler receives it: global middleware, then the
\* route's own raw parser (index.ts:124, index.ts:217)
BodyAtHandler(server, originalUrl, contentType) ==
  raw(GlobalMiddleware(server, Incoming(originalUrl, contentType))).body

\* stripe.webhooks.constructEvent(req.body, sig, secret): it returns the event
\* for the raw bytes and their signature and throws otherwise; the catch of
\* index.ts:134-137 answers 400
constructEvent(body, sigOK) == IF body = "buffer" /\ sigOK THEN "true" ELSE "false"

\* verifyManufacturerSignature(req.body, signature) of index.ts:221: hmac.update
\* of part_002:38 accepts a Buffer and throws a TypeError on anything else
VerifyRequestBody(body, rawBody, signature) ==
  IF ~env.MANUFACTURER_WEBHOOK_SECRET THEN "false"
  ELSE IF ~signature.present \/ signature.len = 0 THEN "false"
  ELSE IF body # "buffer" THEN "throw"
  ELSE verifyManufacturerSignature(rawBody, signature)

\* what is remembered of a webhook delivery once its signature check is done
Delivery(server, originalUrl, contentType, body, correct, verdict, response) ==
  [kind |-> "delivery", server |-> server, route |-> RouteOf(originalUrl),
   originalUrl |-> originalUrl, contentType |-> contentType, body |-> body,
   correct |-> correct, verdict |-> verdict, response |-> response]

\* index.ts:122-137 behind the middleware: a payment webhook delivery up to
\* the signature check; "handled" is a request the handler goes on with
DeliverStripe(s, server, originalUrl, contentType, sigOK) ==
  /\ CanReceive(s, TRUE, MaxRequests)
  /\ RouteOf(originalUrl) = "stripe"
  /\ received' = received + 1
  /\ LET body == BodyAtHandler(server, originalUrl, contentType)
         verdict == constructEvent(body, sigOK)
         response == IF ~env.STRIPE_WEBHOOK_SECRET THEN "500"
                     ELSE IF verdict = "true" THEN "handled" ELSE "400"
     IN Finish(s, Delivery(server, originalUrl, contentType, body,
                           sigOK /\ env.STRIPE_WEBHOOK_SECRET, verdict, response))
  /\ UNCHANGED <<env, orders, paymentEvents, pushes, sessionCalls>>

\* index.ts:215-223 behind the middleware: a manufacturer webhook delivery up
\* to the signature check
DeliverManufacturer(s, server, contentType, rawBody, signature) ==
  /\ CanReceive(s, TRUE, MaxRequests)
  /\ received' = received + 1
  /\ LET body == BodyAtHandler(server, ManufacturerPath, contentType)
         verdict == VerifyRequestBody(body, rawBody, signature)
         correct == signature = Hmac(rawBody) /\ env.MANUFACTURER_WEBHOOK_SECRET
     IN \E response \in {"handled", "400", "500", "none"} :
          /\ verdict = "true" => response = "handled"
          /\ verdict = "false" => response = "400"
          /\ verdict = "throw" => response \in {"500", "none"}
          /\ Finish(s, Delivery(server, ManufacturerPath, contentType, body,
                                correct, verdict, response))
  /\ UNCHANGED <<env, orders, paymentEvents, pushes, sessionCalls>>

\* webhook deliveries through the middleware, one after the other
NextHttp ==
  \/ \E s \in Slots, server \in ServerFiles, originalUrl \in OriginalUrls,
        contentType \in ContentTypes, sigOK \in BOOLEAN :
        DeliverStripe(s, server, originalUrl, contentType, sigOK)
  \/ \E s \in Slots, server \in ServerFiles, contentType \in ContentTypes,
        rawBody \in ManufacturerBodies :
        \E signature \in Signatures(rawBody) :
          DeliverManufacturer(s, server, contentType, rawBody, signature)

SpecHttp == Init /\ [][NextHttp]_vars

\* ================================================================ claims

\* the request in slot s answers in this step
Answers(s) == reqs[s].pc # "idle" /\ reqs'[s].pc = "idle"
\* a request is received and answered in this one step
AnswersAtOnce == received' = received + 1 /\ reqs' = reqs

\* C1: once an order's status is SHIPPED, no webhook delivery changes it to
\* anything else.
C1_ShippedIsFinal ==
  [][\A o \in DOMAIN orders :
       orders[o].status = "SHIPPED" => orders'[o].status = "SHIPPED"]_vars

\* C2: when the same verified payment-completed event is delivered a second
\* time right after the first, the second delivery leaves the order's status,
\* payment-intent id and fulfillmentId as the first left them, and the two
\* deliveries together call sendOrderToManufacturer at most once.
C2_RedeliveryIsNoOp ==
  [][\A s \in Slots :
       (Answers(s) /\ reqs[s].kind = "stripe" /\ reqs[s].redelivery)
         => /\ CoreOf(orders', reqs[s].ev.orderId) = reqs[s].before
            /\ reqs[s].prevCalls + last'.calls <= 1]_vars

\* C3: a manufacturer webhook whose signature is missing or is not the HMAC of
\* its body is answered 400 and leaves every order unchanged.
C3_BadSignatureRejected ==
  [][(AnswersAtOnce /\ last'.kind = "manufacturer" /\ last'.verdict # "true")
       => (last'.response = "400" /\ orders' = orders)]_vars

\* C4: fulfillmentId is written only on an order that has none, and only with
\* the id a sendOrderToManufacturer call for that order returned; once set it
\* never changes.
C4_FulfillmentIdSetOnce ==
  [][\A o \in DOMAIN orders :
       orders'[o].fulfillmentId # orders[o].fulfillmentId
         => /\ orders[o].fulfillmentId = Null
            /\ \E s \in Slots :
                 /\ reqs[s].pc = "s_sent" /\ reqs[s].ev.orderId = o
                 /\ reqs[s].fid = orders'[o].fulfillmentId]_vars

\* C5: every payment-webhook delivery that passes signature verification has
\* appended exactly one PaymentEvent row when it answers.
C5_OneAuditPerDelivery ==
  (last.kind = "stripe" /\ last.verified) => last.audits = 1

\* the order a payment-webhook request found when it arrived was PENDING
FoundPending(r) == r.before # <<>> /\ r.before[1].status = "PENDING"

\* C6: when the push of a verified payment-completed event for a PENDING order
\* fails, the delivery answers 200 at once, having called the manufacturer
\* once, and leaves the order PAID with the payment intent recorded and no
\* fulfillmentId.
C6_PushFailureLeavesPaid ==
  [][\A s \in Slots :
       (reqs[s].pc = "s_send" /\ reqs'[s].pc = "idle" /\ FoundPending(reqs[s]))
         => LET o == reqs[s].ev.orderId IN
            /\ orders'[o].status = "PAID"
            /\ orders'[o].stripePaymentIntentId = reqs[s].ev.payment_intent
            /\ orders'[o].fulfillmentId = Null
            /\ pushes'[o] = pushes[o] + 1
            /\ last'.calls = 1
            /\ last'.response = "200"]_vars

C6_Witness ==
  /\ last.kind = "stripe" /\ last.pushFailed /\ last.firstPaid
  /\ last.response = "200"
  /\ orders[last.ev.orderId].status = "PAID"
  /\ orders[last.ev.orderId].fulfillmentId = Null

Resolvable(items) == SelectSeq(items, LAMBDA i : Known(i.productId))
RECURSIVE Total(_)
Total(items) ==
  IF items = <<>> THEN 0
  ELSE Catalog[Head(items).productId] * Head(items).quantity + Total(Tail(items))

\* C7: a checkout whose cart has at least one resolvable item persists an
\* order whose total is the sum of price x quantity over the resolvable items
\* and whose line items are exactly those items at the product's price.
C7_OrderMatchesResolvableItems ==
  (last.kind = "checkout" /\ Resolvable(last.items) # <<>>)
    => /\ last.orderId # Null
       /\ LET row == orders[last.orderId]
              res == Resolvable(last.items)
          IN /\ row.amountCents = Total(res)
             /\ Len(row.lineItems) = Len(res)
             /\ \A k \in 1..Len(res) :
                  row.lineItems[k] =
                    [productId |-> res[k].productId, quantity |-> res[k].quantity,
                     unitPriceCents |-> Catalog[res[k].productId]]

\* C8: a checkout whose item list is empty, or none of whose items resolves,
\* is answered 400, persists no order and asks the gateway for no session.
C8_UnresolvableCartRejected ==
  (last.kind = "checkout" /\ Resolvable(last.items) = <<>>)
    => (last.response = "400" /\ last.orderId = Null /\ ~last.session)

\* the signature of the request was verified
Verified(r) == IF r.kind = "stripe" THEN r.verified
               ELSE IF r.kind = "manufacturer" THEN r.verdict = "true" ELSE FALSE
\* the handler of slot s takes this step
Acts(s) == reqs[s].pc # "idle" /\ reqs'[s] # reqs[s]

\* C9: a payment webhook whose signature the provider rejects is answered 400
\* and changes nothing; every change of an order's status by a webhook
\* handler, and every call of the manufacturer, is a step of a delivery
\* whose signature was verified.
C9_UnverifiedChangesNothing ==
  [][/\ (AnswersAtOnce /\ last'.kind = "stripe" /\ ~last'.verified
           /\ env.STRIPE_WEBHOOK_SECRET)
          => (last'.response = "400" /\ UNCHANGED <<orders, pushes, paymentEvents>>)
     /\ ((\E o \in DOMAIN orders : orders'[o].status # orders[o].status)
           \/ pushes' # pushes)
          => \E s \in Slots : Acts(s) /\ Verified(reqs[s])]_vars

C9_Witness ==
  /\ last.kind = "stripe" /\ ~last.verified /\ last.response = "400"
  /\ \E o \in DOMAIN orders : orders[o].status = "PENDING"

\* C10: a verified payment-completed event for a PENDING order, handled with
\* no other request in between: the order is PAID, with the event's payment
\* intent, when the manufacturer is called, and when the push returned id F
\* the delivery leaves the order SENT_TO_SUPPLIER with fulfillmentId F and
\* that payment intent.
C10_PaidThenSent ==
  [][\A s \in Slots :
       LET r == reqs[s]
           o == r.ev.orderId
       IN /\ (r.pc = "s_send" /\ FoundPending(r))
               => /\ orders[o].status = "PAID"
                  /\ orders[o].stripePaymentIntentId = r.ev.payment_intent
          /\ (r.pc = "s_audit" /\ Answers(s) /\ FoundPending(r) /\ r.fid # Null)
               => /\ orders'[o].status = "SENT_TO_SUPPLIER"
                  /\ orders'[o].fulfillmentId = r.fid
                  /\ orders'[o].stripePaymentIntentId = r.ev.payment_intent]_vars

C10_Witness ==
  /\ last.kind = "stripe" /\ last.firstPaid /\ ~last.pushFailed
  /\ last.calls = 1 /\ last.audits = 1
  /\ orders[last.ev.orderId].status = "SENT_TO_SUPPLIER"
  /\ orders[last.ev.orderId].fulfillmentId \in FulfillmentIds

\* a verified manufacturer webhook in slot s answers in this step
ManufacturerAnswers(s) ==
  Answers(s) /\ reqs[s].kind = "manufacturer" /\ reqs[s].verdict = "true"

C13_GatewayFailureLeavesPending ==
  [][/\ \A s \in Slots :
          (Answers(s) /\ reqs[s].pc = "c_session")
            => /\ last'.response = "500"
               /\ orders'[reqs[s].orderId].status = "PENDING"
               /\ orders'[reqs[s].orderId].stripeSessionId = Null
     /\ \A o \in DOMAIN orders :
          (\A s \in Slots : reqs[s].pc = "idle" \/ reqs[s].orderId # o)
            => orders'[o] = orders[o]]_vars

\* a checkout has failed at the gateway and left its order PENDING without a
\* session id, and the same cart sent again has been answered 200 with an
\* order that carries a session id
C13_Witness ==
  /\ \A s \in Slots : reqs[s].pc = "idle"
  /\ last.kind = "checkout" /\ last.response = "200"
  /\ \E o1, o2 \in DOMAIN orders :
       /\ o1 # o2 /\ last.orderId = o2
       /\ orders[o1].status = "PENDING" /\ orders[o1].stripeSessionId = Null
       /\ orders[o2].lineItems = orders[o1].lineItems
       /\ orders[o2].stripeSessionId # Null

Rank(status) ==
  CASE status = "PENDING" -> 0
    [] status = "PAID" -> 1
    [] status = "SENT_TO_SUPPLIER" -> 2
    [] status = "FULFILLMENT_ACCEPTED" -> 3
    [] status = "SHIPPED" -> 4

\* C15: every status write of the two webhook handlers is a compare-and-set
\* on the persisted status: under any interleaving of handler steps a write
\* whose target is not later in the order of Rank than the persisted status
\* leaves the order as it is, so no step decreases an order's status.
C15_StatusNeverDecreases ==
  [][\A o \in DOMAIN orders : Rank(orders'[o].status) >= Rank(orders[o].status)]_vars

\* C16: while two deliveries of the same verified payment-completed event are
\* being handled at the same time, sendOrderToManufacturer is called at most
\* once for the order between them.
C16_ConcurrentDeliveriesPushOnce ==
  \A s, t \in Slots :
    (/\ s # t /\ reqs[s].pc # "idle" /\ reqs[t].pc # "idle"
     /\ reqs[s].kind = "stripe" /\ reqs[t].kind = "stripe"
     /\ reqs[s].verified /\ reqs[t].verified
     /\ reqs[s].ev = reqs[t].ev
     /\ reqs[s].ev.type = Completed /\ reqs[s].ev.orderId # Null)
      => reqs[s].calls + reqs[t].calls <= 1

C19_OtherPaymentEventOnlyAudited ==
  [][\A s \in Slots :
       (/\ Acts(s) /\ reqs[s].kind = "stripe" /\ reqs[s].verified
        /\ (reqs[s].ev.type # Completed \/ reqs[s].ev.orderId = Null))
         => /\ orders' = orders /\ pushes' = pushes
            /\ Answers(s)
            /\ last'.response = "200" /\ last'.audits = 1
            /\ paymentEvents' =
                 [paymentEvents EXCEPT ![<<reqs[s].ev.type, reqs[s].ev.orderId>>] = @ + 1]]_vars

\* C20: in every reachable state an order has a fulfillmentId exactly when
\* its status is SENT_TO_SUPPLIER, FULFILLMENT_ACCEPTED or SHIPPED, and a
\* trackingNumber only when its status is SHIPPED.
C20_IdsFollowStatus ==
  \A o \in DOMAIN orders :
    /\ orders[o].fulfillmentId # Null
         <=> orders[o].status \in {"SENT_TO_SUPPLIER", "FULFILLMENT_ACCEPTED", "SHIPPED"}
    /\ orders[o].trackingNumber # Null => orders[o].status = "SHIPPED"

C22_RawBodyAtSignatureCheck ==
  (last.kind = "delivery" /\ last.contentType = "application/json")
    => /\ last.body = "buffer"
       /\ last.correct => (last.verdict = "true" /\ last.response = "handled")

====
